---------------------------- MODULE Spec2Model ----------------------------
(***************************************************************************)
(* A model of the screw dispatch layer: the router builder and exact-match *)
(* dispatch, the WebSocket upgrade middleware, and the JSON converters.    *)
(***************************************************************************)
EXTENDS Integers, Sequences, FiniteSets, TLC

VARIABLES
    handlers,           \* RouterBuilder.handlers : HashMap<(Method, String), Handler>
    fallback_handler,   \* RouterBuilder.fallback_handler : Option<Handler>
    router,             \* the result of build(): not built yet, Err(..) or Ok(Router)
    calls,              \* history of the builder calls made so far
    conn,               \* per connection: the request in flight and what it caused
    on_upgrade,         \* per connection: the transport's upgrade-completion notification
    tasks,              \* the background tasks spawned so far
    converter,          \* the JSON converter in use and its pretty_printed flag
    api,                \* the request/response pair the JSON stage is converting
    sink,               \* the transport's sink half: its state and what was forwarded to it
    stream,             \* the transport's stream half: what it delivered and still holds
    sender,             \* ApiChannel.sender, once the channel is converted
    receiver            \* ApiChannel.receiver, once the channel is converted

routerVars == <<handlers, fallback_handler, router, calls>>
wsVars == <<on_upgrade, tasks>>
jsonVars == <<converter, api>>
chanVars == <<sink, stream, sender, receiver>>
vars == <<handlers, fallback_handler, router, calls, conn, on_upgrade, tasks,
          converter, api, sink, stream, sender, receiver>>

(***************************************************************************)
(* Bounds and universes                                                    *)
(***************************************************************************)
MaxCalls == 3                       \* builder calls before build()
MaxDelivered == 3                   \* events the transport's stream half delivers
MaxSends == 2                       \* calls of Sender.send

Methods == {"GET", "POST"}
RoutePaths == {"/a", "/a/b"}        \* paths a route may be registered under
RequestPaths == {"/a", "/a/b"}      \* paths a request may carry
Handlers == {"h1", "h2"}            \* the closures handed to the builder
Conns == {"c1", "c2"}               \* connections sharing the router handle

Keys == Methods \X RoutePaths
Requests == [method : Methods, path : RequestPaths]

None == [tag |-> "None"]
Some(x) == [tag |-> "Some", value |-> x]

EmptyMap == [k \in {} |-> "h1"]

\* HashMap::insert: the key is bound to the new value, an old binding is replaced
Insert(map, key, value) ==
    [k \in (DOMAIN map) \cup {key} |-> IF k = key THEN value ELSE map[k]]

\* HashMap::extend: every pair of `other` is inserted
Extend(map, other) ==
    [k \in (DOMAIN map) \cup (DOMAIN other) |->
        IF k \in DOMAIN other THEN other[k] ELSE map[k]]

\* RoutesCollection values handed to routes(): tables of already converted handlers
RoutesCollections ==
    { Insert(Insert(EmptyMap, <<"GET", "/a">>, "h2"), <<"POST", "/a/b">>, "h1") }

(***************************************************************************)
(* RouterBuilder                                                           *)
(***************************************************************************)
Building == router.tag = "NotBuilt" /\ Len(calls) < MaxCalls

\* a fallback_handler that keeps the fallback it already has (get_or_insert)
fallback_handler_call_KeepsFirst(h) ==
    /\ Building
    /\ fallback_handler' = IF fallback_handler = None THEN Some(h) ELSE fallback_handler
    /\ calls' = Append(calls, [op |-> "fallback_handler", handler |-> h])
    /\ UNCHANGED <<handlers, router, conn, wsVars, jsonVars, chanVars>>

\* RouterBuilder::fallback_handler
fallback_handler_call(h) ==
    /\ Building
    /\ fallback_handler' = Some(h)
    /\ calls' = Append(calls, [op |-> "fallback_handler", handler |-> h])
    /\ UNCHANGED <<handlers, router, conn, wsVars, jsonVars, chanVars>>

\* a route that keeps an earlier binding of its key (entry().or_insert)
route_KeepsFirst(method, path, h) ==
    /\ Building
    /\ handlers' = IF <<method, path>> \in DOMAIN handlers
                   THEN handlers
                   ELSE Insert(handlers, <<method, path>>, h)
    /\ calls' = Append(calls, [op |-> "route", key |-> <<method, path>>, handler |-> h])
    /\ UNCHANGED <<fallback_handler, router, conn, wsVars, jsonVars, chanVars>>

\* RouterBuilder::route
route(method, path, h) ==
    /\ Building
    /\ handlers' = Insert(handlers, <<method, path>>, h)
    /\ calls' = Append(calls, [op |-> "route", key |-> <<method, path>>, handler |-> h])
    /\ UNCHANGED <<fallback_handler, router, conn, wsVars, jsonVars, chanVars>>

\* routes that also binds every path of the collection under every method
routes_AnyMethod(collection) ==
    /\ Building
    /\ handlers' = [k \in (DOMAIN handlers) \cup
                          {<<m, d[2]>> : m \in Methods, d \in DOMAIN collection} |->
                      IF \E d \in DOMAIN collection : d[2] = k[2]
                      THEN collection[CHOOSE d \in DOMAIN collection : d[2] = k[2]]
                      ELSE handlers[k]]
    /\ calls' = Append(calls, [op |-> "routes", handlers |-> collection])
    /\ UNCHANGED <<fallback_handler, router, conn, wsVars, jsonVars, chanVars>>

\* RouterBuilder::routes
routes(collection) ==
    /\ Building
    /\ handlers' = Extend(handlers, collection)
    /\ calls' = Append(calls, [op |-> "routes", handlers |-> collection])
    /\ UNCHANGED <<fallback_handler, router, conn, wsVars, jsonVars, chanVars>>

\* a build that falls back to some registered handler when none was supplied
build_DefaultFallback ==
    /\ router.tag = "NotBuilt"
    /\ router' = IF fallback_handler.tag = "None" /\ DOMAIN handlers = {}
                 THEN [tag |-> "Err", error |-> "FallbackHandlerMissing"]
                 ELSE [tag |-> "Ok",
                       handlers |-> handlers,
                       fallback_handler |->
                           IF fallback_handler.tag = "None"
                           THEN handlers[CHOOSE k \in DOMAIN handlers : TRUE]
                           ELSE fallback_handler.value]
    /\ UNCHANGED <<handlers, fallback_handler, calls, conn, wsVars, jsonVars, chanVars>>

\* RouterBuilder::build
build ==
    /\ router.tag = "NotBuilt"
    /\ router' = IF fallback_handler.tag = "None"
                 THEN [tag |-> "Err", error |-> "FallbackHandlerMissing"]
                 ELSE [tag |-> "Ok",
                       handlers |-> handlers,
                       fallback_handler |-> fallback_handler.value]
    /\ UNCHANGED <<handlers, fallback_handler, calls, conn, wsVars, jsonVars, chanVars>>

(***************************************************************************)
(* Header values are byte strings: sequences of one-character strings,     *)
(* with ObsText standing for a byte outside visible ASCII.                 *)
(***************************************************************************)
ObsText == "0xE9"

UpperCase == <<"A", "B", "C", "D", "E", "F", "G", "H", "I", "J", "K", "L", "M",
               "N", "O", "P", "Q", "R", "S", "T", "U", "V", "W", "X", "Y", "Z">>
LowerCase == <<"a", "b", "c", "d", "e", "f", "g", "h", "i", "j", "k", "l", "m",
               "n", "o", "p", "q", "r", "s", "t", "u", "v", "w", "x", "y", "z">>

\* u8::to_ascii_lowercase
to_ascii_lowercase(b) ==
    IF \E i \in DOMAIN UpperCase : UpperCase[i] = b
    THEN LowerCase[CHOOSE i \in DOMAIN UpperCase : UpperCase[i] = b]
    ELSE b

\* str::eq_ignore_ascii_case
eq_ignore_ascii_case(x, y) ==
    /\ Len(x) = Len(y)
    /\ \A i \in 1..Len(x) : to_ascii_lowercase(x[i]) = to_ascii_lowercase(y[i])

\* HeaderValue::to_str: Some(text) when every byte is visible ASCII
to_str(value) ==
    IF \A i \in 1..Len(value) : value[i] # ObsText THEN Some(value) ELSE None

\* str::split(|c| c == ' ' || c == ','): the pieces between separators
RECURSIVE split(_)
split(text) ==
    LET seps == {i \in 1..Len(text) : text[i] \in {" ", ","}} IN
    IF seps = {} THEN <<text>>
    ELSE LET i == CHOOSE j \in seps : \A k \in seps : j <= k
         IN <<SubSeq(text, 1, i - 1)>> \o split(SubSeq(text, i + 1, Len(text)))

S_Upgrade == <<"U", "p", "g", "r", "a", "d", "e">>
S_websocket == <<"w", "e", "b", "s", "o", "c", "k", "e", "t">>
S_13 == <<"1", "3">>
S_keep_alive == <<"k", "e", "e", "p", "-", "a", "l", "i", "v", "e">>
S_keep_alive_upgrade == <<"k", "e", "e", "p", "-", "a", "l", "i", "v", "e", ",", " ", "u", "p", "g", "r", "a", "d", "e">>
S_upgrades == <<"u", "p", "g", "r", "a", "d", "e", "s">>
S_Upgrade_obs == S_Upgrade \o <<",", ObsText>>
S_WebSocket == <<"W", "e", "b", "S", "o", "c", "k", "e", "t">>
S_h2c == <<"h", "2", "c">>
S_8 == <<"8">>
SampleKey ==
    <<"d", "G", "h", "l", "I", "H", "N", "h", "b", "X", "B", "s", "Z", "S", "B", "u", "b", "2", "5", "j", "Z", "Q", "=", "=">>
SampleAccept ==
    <<"s", "3", "p", "P", "L", "M", "B", "i", "T", "x", "a", "Q", "9", "k", "Y", "G", "z", "z", "h", "Z", "R", "b", "K", "+", "x", "O", "o", "=">>
OtherKey ==
    <<"x", "3", "J", "J", "H", "M", "b", "D", "L", "1", "E", "z", "L", "k", "h", "9", "G", "B", "h", "X", "D", "w", "=", "=">>
OtherAccept ==
    <<"H", "S", "m", "r", "c", "0", "s", "M", "l", "Y", "U", "k", "A", "G", "m", "m", "5", "O", "P", "p", "G", "2", "H", "a", "G", "W", "k", "=">>

\* hyper::Version is ordered HTTP/0.9 < HTTP/1.0 < HTTP/1.1 < HTTP/2.0 < HTTP/3.0
Versions == <<"HTTP/0.9", "HTTP/1.0", "HTTP/1.1", "HTTP/2.0", "HTTP/3.0">>
VersionRank(v) == CHOOSE i \in DOMAIN Versions : Versions[i] = v

\* the requests that reach a router holding a WebSocket route
WsPaths == {"/ws", "/x"}
WsRequests ==
    [method : Methods,
     path : WsPaths,
     version : {"HTTP/1.0", "HTTP/1.1", "HTTP/2.0"},
     headers : [{"Connection"} -> {None, Some(S_Upgrade), Some(S_keep_alive_upgrade),
                                   Some(S_keep_alive), Some(S_upgrades),
                                   Some(S_Upgrade_obs)}]
               \X [{"Upgrade"} -> {None, Some(S_websocket), Some(S_WebSocket), Some(S_h2c)}]
               \X [{"Sec-WebSocket-Version"} -> {None, Some(S_13), Some(S_8)}]
               \X [{"Sec-WebSocket-Key"} -> {None, Some(SampleKey), Some(OtherKey)}]]

\* HeaderMap::get on the request's headers
get(request, name) ==
    LET hs == {request.headers[i] : i \in 1..Len(request.headers)}
    IN (CHOOSE h \in hs : name \in DOMAIN h)[name]

WebSocketHandlers == {"ws"}         \* handlers wrapped in the upgrade middleware
WsConns == {"c1"}

(***************************************************************************)
(* WebSocket handshake checks                                              *)
(***************************************************************************)
is_get_method(request) == request.method = "GET"

is_http_version_11_or_larger(request) ==
    VersionRank(request.version) >= VersionRank("HTTP/1.1")

is_connection_header_upgrade(request) ==
    LET h == get(request, "Connection")
        text == IF h.tag = "Some" THEN to_str(h.value) ELSE None
    IN IF text.tag = "Some"
       THEN \E i \in DOMAIN split(text.value) :
                eq_ignore_ascii_case(split(text.value)[i], S_Upgrade)
       ELSE FALSE

is_upgrade_header_web_socket(request) ==
    LET h == get(request, "Upgrade")
        text == IF h.tag = "Some" THEN to_str(h.value) ELSE None
    IN IF text.tag = "Some"
       THEN eq_ignore_ascii_case(text.value, S_websocket)
       ELSE FALSE

\* a version check that accepts any Sec-WebSocket-Version header
is_web_socket_version_header_13_AnyValue(request) ==
    get(request, "Sec-WebSocket-Version").tag = "Some"

is_web_socket_version_header_13(request) ==
    LET h == get(request, "Sec-WebSocket-Version")
    IN IF h.tag = "Some" THEN h.value = S_13 ELSE FALSE

get_web_socket_key_header(request) == get(request, "Sec-WebSocket-Key")

\* tungstenite's derive_accept_key: base64(SHA-1(key ++ GUID)), tabulated
derive_accept_key(key) ==
    IF key = SampleKey THEN SampleAccept
    ELSE IF key = OtherKey THEN OtherAccept
    ELSE <<"?">>

Err(e) == [tag |-> "Err", error |-> e]

\* a validation that answers a wrong method like any other failure
try_upgradable_MethodAsOther(http_request) ==
    IF ~is_get_method(http_request) THEN Err("WrongHttpVersion")
    ELSE IF ~is_http_version_11_or_larger(http_request) THEN Err("WrongHttpVersion")
    ELSE IF ~is_connection_header_upgrade(http_request)
         THEN Err("MissingConnectionUpgradeHeader")
    ELSE IF ~is_upgrade_header_web_socket(http_request)
         THEN Err("MissingUpgradeWebSocketHeader")
    ELSE IF ~is_web_socket_version_header_13(http_request)
         THEN Err("MissingSecWebSocketVersionHeader")
    ELSE IF get_web_socket_key_header(http_request).tag = "None"
         THEN Err("MissingSecWebSocketKey")
    ELSE [tag |-> "Ok",
          key |-> derive_accept_key(get_web_socket_key_header(http_request).value)]

\* a try_upgradable that looks at the HTTP version before the method
try_upgradable_VersionFirst(http_request) ==
    IF ~is_http_version_11_or_larger(http_request) THEN Err("WrongHttpVersion")
    ELSE IF ~is_get_method(http_request) THEN Err("WrongHttpMethod")
    ELSE IF ~is_connection_header_upgrade(http_request)
         THEN Err("MissingConnectionUpgradeHeader")
    ELSE IF ~is_upgrade_header_web_socket(http_request)
         THEN Err("MissingUpgradeWebSocketHeader")
    ELSE IF ~is_web_socket_version_header_13(http_request)
         THEN Err("MissingSecWebSocketVersionHeader")
    ELSE IF get_web_socket_key_header(http_request).tag = "None"
         THEN Err("MissingSecWebSocketKey")
    ELSE [tag |-> "Ok",
          key |-> derive_accept_key(get_web_socket_key_header(http_request).value)]

try_upgradable(http_request) ==
    IF ~is_get_method(http_request) THEN Err("WrongHttpMethod")
    ELSE IF ~is_http_version_11_or_larger(http_request) THEN Err("WrongHttpVersion")
    ELSE IF ~is_connection_header_upgrade(http_request)
         THEN Err("MissingConnectionUpgradeHeader")
    ELSE IF ~is_upgrade_header_web_socket(http_request)
         THEN Err("MissingUpgradeWebSocketHeader")
    ELSE IF ~is_web_socket_version_header_13(http_request)
         THEN Err("MissingSecWebSocketVersionHeader")
    ELSE IF get_web_socket_key_header(http_request).tag = "None"
         THEN Err("MissingSecWebSocketKey")
    ELSE [tag |-> "Ok",
          key |-> derive_accept_key(get_web_socket_key_header(http_request).value)]

\* a 101 response that leaves out the Upgrade header
switching_protocols_NoUpgrade(key) ==
    [status |-> 101,
     headers |-> {<<"Connection", S_Upgrade>>, <<"Sec-WebSocket-Accept", key>>},
     body |-> <<>>]

\* the 101 response of an accepted handshake
switching_protocols(key) ==
    [status |-> 101,
     headers |-> {<<"Connection", S_Upgrade>>, <<"Upgrade", S_websocket>>,
                  <<"Sec-WebSocket-Accept", key>>},
     body |-> <<>>]

\* the response of a rejected handshake
bad_request ==
    [status |-> 400, headers |-> {}, body |-> <<>>]

(***************************************************************************)
(* Dispatch                                                                *)
(***************************************************************************)
\* Router::process: exact (method, path) lookup, the fallback on a miss
process(r, request) ==
    LET key == <<request.method, request.path>> IN
    IF key \in DOMAIN r.handlers
    THEN [handler |-> r.handlers[key], fallback |-> FALSE]
    ELSE [handler |-> r.fallback_handler, fallback |-> TRUE]

\* what a plain handler closure answers
HandlerResponse(h, request) ==
    [status |-> 200, headers |-> {}, body |-> <<>>, from |-> h]

Idle == [pc |-> "idle"]

\* SessionService::call: a request arrives on a connection, the response future is
\* made. A connection whose upgrade was registered serves no further request.
call(c, request) ==
    /\ router.tag = "Ok"
    /\ conn[c].pc \in {"idle", "done"}
    /\ on_upgrade[c] = "unregistered"
    /\ conn' = [conn EXCEPT ![c] =
                  [pc |-> "call", request |-> request, invoked |-> <<>>,
                   responses |-> <<>>, next_calls |-> 0, upgradable |-> None]]
    /\ UNCHANGED <<routerVars, wsVars, jsonVars, chanVars>>

\* a response that takes the matched route out of the table to own its handler
response_TakesRoute(c) ==
    /\ conn[c].pc = "call"
    /\ LET hit == process(router, conn[c].request)
           key == <<conn[c].request.method, conn[c].request.path>>
       IN /\ conn' = [conn EXCEPT ![c].pc = "done",
                                  ![c].invoked = Append(@, hit),
                                  ![c].responses =
                                      Append(@, HandlerResponse(hit.handler,
                                                                conn[c].request))]
          /\ router' = [router EXCEPT !.handlers =
                           [k \in DOMAIN router.handlers \ {key} |-> router.handlers[k]]]
    /\ UNCHANGED <<handlers, fallback_handler, calls, wsVars, jsonVars, chanVars>>

\* Responder::response: the request is wrapped and processed; a plain handler
\* answers at once, a WebSocket route enters the upgrade middleware
response(c) ==
    /\ conn[c].pc = "call"
    /\ LET hit == process(router, conn[c].request) IN
       conn' = IF hit.handler \in WebSocketHandlers
               THEN [conn EXCEPT ![c].pc = "respond",
                                 ![c].invoked = Append(@, hit)]
               ELSE [conn EXCEPT ![c].pc = "done",
                                 ![c].invoked = Append(@, hit),
                                 ![c].responses =
                                     Append(@, HandlerResponse(hit.handler,
                                                               conn[c].request))]
    /\ UNCHANGED <<routerVars, wsVars, jsonVars, chanVars>>

(***************************************************************************)
(* WebSocketMiddlewareConverter::respond, step by step                     *)
(***************************************************************************)
\* a respond that registers the upgrade notification before it validates
respond_RegistersFirst(c) ==
    /\ conn[c].pc = "respond"
    /\ on_upgrade' = [on_upgrade EXCEPT ![c] = "pending"]
    /\ LET result == try_upgradable(conn[c].request) IN
       IF result.tag = "Ok"
       THEN conn' = [conn EXCEPT ![c].pc = "next",
                                 ![c].upgradable = Some([key |-> result.key])]
       ELSE IF result.error = "WrongHttpMethod"
       THEN conn' = [conn EXCEPT ![c].pc = "panicked"]
       ELSE conn' = [conn EXCEPT ![c].pc = "done",
                                 ![c].responses = Append(@, bad_request)]
    /\ UNCHANGED <<routerVars, tasks, jsonVars, chanVars>>

\* try_upgradable and the match on its result
respond(c) ==
    /\ conn[c].pc = "respond"
    /\ LET result == try_upgradable(conn[c].request) IN
       IF result.tag = "Ok"
       THEN /\ conn' = [conn EXCEPT ![c].pc = "next",
                                    ![c].upgradable = Some([key |-> result.key])]
            /\ on_upgrade' = [on_upgrade EXCEPT ![c] = "pending"]
       ELSE IF result.error = "WrongHttpMethod"
       THEN /\ conn' = [conn EXCEPT ![c].pc = "panicked"]
            /\ UNCHANGED on_upgrade
       ELSE /\ conn' = [conn EXCEPT ![c].pc = "done",
                                    ![c].responses = Append(@, bad_request)]
            /\ UNCHANGED on_upgrade
    /\ UNCHANGED <<routerVars, tasks, jsonVars, chanVars>>

\* next(ws_request).await: the wrapped typed handler runs and returns its response
respond_next(c) ==
    /\ conn[c].pc = "next"
    /\ conn' = [conn EXCEPT ![c].pc = "spawn", ![c].next_calls = @ + 1]
    /\ UNCHANGED <<routerVars, wsVars, jsonVars, chanVars>>

\* task::spawn(future): the background task is scheduled
respond_spawn(c) ==
    /\ conn[c].pc = "spawn"
    /\ tasks' = Append(tasks, [conn |-> c, pc |-> "on_upgrade", stream |-> None,
                               upgraded_fn_calls |-> 0])
    /\ conn' = [conn EXCEPT ![c].pc = "switching"]
    /\ UNCHANGED <<routerVars, on_upgrade, jsonVars, chanVars>>

\* a respond that waits for the task it spawned before it returns
respond_return_Joins(c) ==
    /\ conn[c].pc = "switching"
    /\ \A t \in DOMAIN tasks :
          tasks[t].conn = c => tasks[t].pc \in {"failed", "returned", "panicked"}
    /\ conn' = [conn EXCEPT ![c].pc = "done",
                            ![c].responses =
                                Append(@, switching_protocols(conn[c].upgradable.value.key))]
    /\ UNCHANGED <<routerVars, wsVars, jsonVars, chanVars>>

\* the 101 response is built and returned
respond_return(c) ==
    /\ conn[c].pc = "switching"
    /\ conn' = [conn EXCEPT ![c].pc = "done",
                            ![c].responses =
                                Append(@, switching_protocols(conn[c].upgradable.value.key))]
    /\ UNCHANGED <<routerVars, wsVars, jsonVars, chanVars>>

(***************************************************************************)
(* The transport's side of the upgrade                                     *)
(***************************************************************************)
\* the 101 response was written: the connection is handed over
upgrade_complete(c) ==
    /\ on_upgrade[c] = "pending"
    /\ conn[c].pc = "done"
    /\ conn[c].responses # <<>>
    /\ conn[c].responses[Len(conn[c].responses)].status = 101
    /\ on_upgrade' = [on_upgrade EXCEPT ![c] = "ok"]
    /\ UNCHANGED <<routerVars, conn, tasks, jsonVars, chanVars>>

\* the connection went away before it could be handed over
upgrade_fail(c) ==
    /\ on_upgrade[c] = "pending"
    /\ on_upgrade' = [on_upgrade EXCEPT ![c] = "err"]
    /\ UNCHANGED <<routerVars, conn, tasks, jsonVars, chanVars>>

(***************************************************************************)
(* The background task: on_upgrade, then from_raw_socket, then upgraded_fn *)
(***************************************************************************)
\* a task that goes on to the framing whatever the notification resolved to
task_on_upgrade_IgnoresError(t) ==
    /\ tasks[t].pc = "on_upgrade"
    /\ on_upgrade[tasks[t].conn] # "pending"
    /\ tasks' = [tasks EXCEPT ![t].pc = "from_raw_socket"]
    /\ UNCHANGED <<routerVars, conn, on_upgrade, jsonVars, chanVars>>

\* a task that goes on to the framing while the notification is still pending
task_on_upgrade_NoWait(t) ==
    /\ tasks[t].pc = "on_upgrade"
    /\ tasks' = [tasks EXCEPT ![t].pc =
                    IF on_upgrade[tasks[t].conn] # "err" THEN "from_raw_socket"
                    ELSE "failed"]
    /\ UNCHANGED <<routerVars, conn, on_upgrade, jsonVars, chanVars>>

task_on_upgrade(t) ==
    /\ tasks[t].pc = "on_upgrade"
    /\ on_upgrade[tasks[t].conn] # "pending"
    /\ tasks' = [tasks EXCEPT ![t].pc =
                    IF on_upgrade[tasks[t].conn] = "ok" THEN "from_raw_socket"
                    ELSE "failed"]
    /\ UNCHANGED <<routerVars, conn, on_upgrade, jsonVars, chanVars>>

task_from_raw_socket(t) ==
    /\ tasks[t].pc = "from_raw_socket"
    /\ tasks' = [tasks EXCEPT ![t].pc = "upgraded_fn",
                              ![t].stream = Some([raw |-> tasks[t].conn,
                                                  role |-> "Server",
                                                  config |-> None])]
    /\ UNCHANGED <<routerVars, conn, on_upgrade, jsonVars, chanVars>>

\* a callback awaited by the task that carries the request: its panic takes
\* that task down with it
task_upgraded_fn_Awaited(t, outcome) ==
    /\ tasks[t].pc = "upgraded_fn"
    /\ tasks' = [tasks EXCEPT ![t].pc = outcome, ![t].upgraded_fn_calls = @ + 1]
    /\ conn' = IF outcome = "panicked"
               THEN [conn EXCEPT ![tasks[t].conn].pc = "panicked"]
               ELSE conn
    /\ UNCHANGED <<routerVars, on_upgrade, jsonVars, chanVars>>

task_upgraded_fn(t, outcome) ==
    /\ tasks[t].pc = "upgraded_fn"
    /\ tasks' = [tasks EXCEPT ![t].pc = outcome, ![t].upgraded_fn_calls = @ + 1]
    /\ UNCHANGED <<routerVars, conn, on_upgrade, jsonVars, chanVars>>

(***************************************************************************)
(* JSON converters (screw-api and screw-api-converters)                    *)
(***************************************************************************)
Ok(v) == [tag |-> "Ok", value |-> v]

S_application_json == <<"a", "p", "p", "l", "i", "c", "a", "t", "i", "o", "n", "/", "j", "s", "o", "n">>
S_Application_JSON == <<"A", "p", "p", "l", "i", "c", "a", "t", "i", "o", "n", "/", "J", "S", "O", "N">>
S_application_json_charset ==
    <<"a", "p", "p", "l", "i", "c", "a", "t", "i", "o", "n", "/", "j", "s", "o", "n", ";", " ", "c", "h", "a", "r", "s", "e", "t", "=", "u", "t", "f", "-", "8">>
S_text_plain == <<"t", "e", "x", "t", "/", "p", "l", "a", "i", "n">>
S_text_plain_obs == S_text_plain \o <<ObsText>>

B_x1 == <<"{", "\"", "x", "\"", ":", "1", "}">>
B_x0_spaced == <<"{", " ", "\"", "x", "\"", " ", ":", " ", "0", " ", "}">>
B_x1_pretty == <<"{", "\n", " ", " ", "\"", "x", "\"", ":", " ", "1", "\n", "}">>
B_truncated == <<"{", "\"", "x", "\"", ":">>
B_other_field == <<"{", "\"", "y", "\"", ":", "1", "}">>
B_trailing == <<"{", "\"", "x", "\"", ":", "1", "}", "}">>

\* The typed payload of the model is the struct { x: <one decimal digit> }.
Digits == <<"0", "1", "2", "3", "4", "5", "6", "7", "8", "9">>
DigitValue(b) == (CHOOSE i \in DOMAIN Digits : Digits[i] = b) - 1
JsonWhitespace == {" ", "\n", "\t", "\r"}

\* the first position at or after i that holds no whitespace; 0 is a failed parse
SkipWhitespace(bytes, i) ==
    IF i = 0 THEN 0
    ELSE LET rest == {j \in i..Len(bytes) : bytes[j] \notin JsonWhitespace}
         IN IF rest = {} THEN Len(bytes) + 1
            ELSE CHOOSE j \in rest : \A k \in rest : j <= k

\* the position after `literal` when it stands at i, 0 otherwise
Expect(bytes, i, literal) ==
    IF /\ i >= 1
       /\ i + Len(literal) - 1 <= Len(bytes)
       /\ SubSeq(bytes, i, i + Len(literal) - 1) = literal
    THEN i + Len(literal)
    ELSE 0

\* serde_json::from_slice / from_str into the payload struct
from_slice(bytes) ==
    LET p1 == Expect(bytes, SkipWhitespace(bytes, 1), <<"{">>)
        p2 == Expect(bytes, SkipWhitespace(bytes, p1), <<"\"", "x", "\"">>)
        p3 == Expect(bytes, SkipWhitespace(bytes, p2), <<":">>)
        p4 == SkipWhitespace(bytes, p3)
        digit == /\ p4 >= 1
                 /\ p4 <= Len(bytes)
                 /\ \E i \in DOMAIN Digits : Digits[i] = bytes[p4]
        p5 == IF digit THEN Expect(bytes, SkipWhitespace(bytes, p4 + 1), <<"}">>) ELSE 0
    IN IF p5 # 0 /\ SkipWhitespace(bytes, p5) = Len(bytes) + 1
       THEN Ok([x |-> DigitValue(bytes[p4])])
       ELSE Err("serde_json::Error")

\* serde_json::to_vec / to_vec_pretty of a response content: its payload struct,
\* or an error when the content's Serialize implementation fails
to_vec(content, pretty_printed) ==
    IF ~content.serializable THEN Err("serde_json::Error")
    ELSE IF pretty_printed
    THEN Ok(<<"{", "\n", " ", " ", "\"", "x", "\"", ":", " ",
              Digits[content.data.x + 1], "\n", "}">>)
    ELSE Ok(<<"{", "\"", "x", "\"", ":", Digits[content.data.x + 1], "}">>)

\* hyper::Response::builder().status(..).header(..).body(..)
builder_body(status, headers, body) ==
    IF status >= 100 /\ status < 1000
    THEN Ok([status |-> status, headers |-> headers, body |-> body])
    ELSE Err("http::Error")

\* the fixed response of a failed encode
internal_server_error == [status |-> 500, headers |-> {}, body |-> <<>>]

ContentTypes ==
    {None, Some(<<>>), Some(S_application_json), Some(S_Application_JSON),
     Some(S_application_json_charset), Some(S_text_plain), Some(S_text_plain_obs)}
Bodies ==
    {Ok(b) : b \in {B_x1, B_x0_spaced, B_x1_pretty, B_truncated, B_other_field,
                    B_trailing, <<>>}}
    \cup {Err("hyper::Error")}
RemoteAddrs == {"10.0.0.1:4000", "10.0.0.2:4000"}

ApiRequests ==
    [remote_addr : RemoteAddrs,
     extensions : {"extensions"},
     http : [parts : [method : {"POST"}, uri : {"/api"},
                      headers : [{"content-type"} -> ContentTypes]],
             body : Bodies]]

ApiResponses ==
    [content : [variant : {"Success", "Failure"},
                status_code : {200, 404},
                data : [x : {0, 1}],
                serializable : BOOLEAN]]

\* a convert that accepts every content type starting with application/json
convert_PrefixMatch(parts, body) ==
    LET header_value == parts.headers["content-type"] IN
    IF header_value.tag = "Some" /\ to_str(header_value.value).tag = "None"
    THEN Err("ToStrError")
    ELSE LET content_type == header_value IN
         IF content_type \in {None, Some(<<>>)}
         THEN Err("ApiRequestContentTypeError::Missed")
         ELSE IF \/ Len(content_type.value) < Len(S_application_json)
                 \/ SubSeq(content_type.value, 1, Len(S_application_json))
                      # S_application_json
         THEN Err("ApiRequestContentTypeError::Incorrect")
         ELSE IF body.tag = "Err" THEN Err("hyper::Error")
         ELSE from_slice(body.value)

\* screw-api, JsonApiRequestConverter::convert_request::convert
convert(parts, body) ==
    LET header_value == parts.headers["content-type"] IN
    IF header_value.tag = "Some" /\ to_str(header_value.value).tag = "None"
    THEN Err("ToStrError")
    ELSE LET content_type == header_value IN
         IF content_type \in {None, Some(<<>>)}
         THEN Err("ApiRequestContentTypeError::Missed")
         ELSE IF content_type # Some(S_application_json)
         THEN Err("ApiRequestContentTypeError::Incorrect")
         ELSE IF body.tag = "Err" THEN Err("hyper::Error")
         ELSE from_slice(body.value)

\* screw-api-converters, JsonApiConverter::convert_request::convert
JsonApiConverter_convert(parts, body) ==
    LET header_value == parts.headers["content-type"] IN
    IF header_value.tag = "Some" /\ to_str(header_value.value).tag = "None"
    THEN Err("JsonApiRequestConvertError::ToStr")
    ELSE LET content_type == header_value IN
         IF content_type = Some(S_application_json)
         THEN IF body.tag = "Err" THEN Err("JsonApiRequestConvertError::Hyper")
              ELSE IF from_slice(body.value).tag = "Err"
              THEN Err("JsonApiRequestConvertError::SerdeJson")
              ELSE from_slice(body.value)
         ELSE IF content_type \in {None, Some(<<>>)}
         THEN Err("JsonApiRequestConvertError::ContentTypeMissed")
         ELSE Err("JsonApiRequestConvertError::ContentTypeIncorrect")

\* RqContent::create: the content type keeps what it was built from
create(origin_content) == [origin |-> origin_content]

\* screw-api, JsonApiRequestConverter::convert_request
JsonApiRequestConverter_convert_request(request) ==
    LET http_parts == request.http.parts
        http_body == request.http.body
        data_result == convert(http_parts, http_body)
    IN [content |-> create([http_parts |-> http_parts,
                            remote_addr |-> request.remote_addr,
                            extensions |-> request.extensions,
                            data_result |-> data_result])]

\* Request::into_parts of screw-api-converters' request type
into_parts(request) ==
    <<[http_parts |-> request.http.parts,
       remote_addr |-> request.remote_addr,
       extensions |-> request.extensions],
      request.http.body>>

\* a convert_request that hands the handler the address of the proxy in front
JsonApiConverter_convert_request_ProxyAddr(request) ==
    LET parts == into_parts(request)[1]
        body == into_parts(request)[2]
        data_result == JsonApiConverter_convert(parts.http_parts, body)
    IN [content |-> create([http_parts |-> parts.http_parts,
                            remote_addr |-> "10.0.0.1:4000",
                            extensions |-> parts.extensions,
                            data_result |-> data_result])]

\* screw-api-converters, JsonApiConverter::convert_request
JsonApiConverter_convert_request(request) ==
    LET parts == into_parts(request)[1]
        body == into_parts(request)[2]
        data_result == JsonApiConverter_convert(parts.http_parts, body)
    IN [content |-> create([http_parts |-> parts.http_parts,
                            remote_addr |-> parts.remote_addr,
                            extensions |-> parts.extensions,
                            data_result |-> data_result])]

\* a convert_response that builds its response without the content-type header
JsonApiResponseConverter_convert_response_NoHeader(api_response, pretty_printed) ==
    LET content == api_response.content
        json_bytes == to_vec(content, pretty_printed)
        http_response_result ==
            IF json_bytes.tag = "Err" THEN json_bytes
            ELSE builder_body(content.status_code, {}, json_bytes.value)
    IN IF http_response_result.tag = "Ok" THEN http_response_result.value
       ELSE internal_server_error

\* screw-api, JsonApiResponseConverter::convert_response
JsonApiResponseConverter_convert_response(api_response, pretty_printed) ==
    LET content == api_response.content
        status_code == content.status_code
        json_bytes == to_vec(content, pretty_printed)
        http_response_result ==
            IF json_bytes.tag = "Err" THEN json_bytes
            ELSE builder_body(status_code,
                              {<<"content-type", S_application_json>>},
                              json_bytes.value)
    IN IF http_response_result.tag = "Ok" THEN http_response_result.value
       ELSE internal_server_error

\* a convert_response that keeps the content's status when the encode fails
JsonApiConverter_convert_response_KeepsStatus(api_response, pretty_printed) ==
    LET content == api_response.content
        json_bytes_vec == to_vec(content, pretty_printed)
    IN IF json_bytes_vec.tag = "Ok"
       THEN [status |-> content.status_code,
             headers |-> {<<"content-type", S_application_json>>},
             body |-> json_bytes_vec.value]
       ELSE [status |-> content.status_code, headers |-> {}, body |-> <<>>]

\* screw-api-converters, JsonApiConverter::convert_response
JsonApiConverter_convert_response(api_response, pretty_printed) ==
    LET content == api_response.content
        status_code == content.status_code
        json_bytes_vec == to_vec(content, pretty_printed)
        response_result ==
            IF json_bytes_vec.tag = "Err" THEN json_bytes_vec
            ELSE builder_body(status_code,
                              {<<"content-type", S_application_json>>},
                              json_bytes_vec.value)
    IN IF response_result.tag = "Ok" THEN response_result.value
       ELSE internal_server_error

\* the stage converts an outer request; the inner request is ready for the handler
convert_request(request) ==
    /\ api.pc \in {"idle", "responded"}
    /\ api' = [pc |-> "converted",
               request |-> request,
               api_request |->
                   IF converter.crate = "screw-api"
                   THEN JsonApiRequestConverter_convert_request(request)
                   ELSE JsonApiConverter_convert_request(request),
               create_calls |-> 1]
    /\ UNCHANGED <<routerVars, conn, wsVars, converter, chanVars>>

\* the wrapped handler consumes the inner request and answers with its content
handle(api_response) ==
    /\ api.pc = "converted"
    /\ api' = [pc |-> "handled",
               request |-> api.request,
               api_request |-> api.api_request,
               create_calls |-> api.create_calls,
               handler_saw |-> api.api_request.content,
               api_response |-> api_response]
    /\ UNCHANGED <<routerVars, conn, wsVars, converter, chanVars>>

\* the stage converts the handler's response into the outer response
convert_response ==
    /\ api.pc = "handled"
    /\ api' = [pc |-> "responded",
               request |-> api.request,
               api_request |-> api.api_request,
               create_calls |-> api.create_calls,
               handler_saw |-> api.handler_saw,
               api_response |-> api.api_response,
               http_response |->
                   IF converter.crate = "screw-api"
                   THEN JsonApiResponseConverter_convert_response(
                            api.api_response, converter.pretty_printed)
                   ELSE JsonApiConverter_convert_response(
                            api.api_response, converter.pretty_printed)]
    /\ UNCHANGED <<routerVars, conn, wsVars, converter, chanVars>>

(***************************************************************************)
(* The typed channel over an upgraded connection                           *)
(***************************************************************************)
\* the values of the Send type; one of them has a Serialize implementation
\* that reports an error
Unserializable == [unserializable |-> TRUE]
Serializable == {[x |-> 0], [x |-> 1]}
TypedMessages == Serializable \cup {Unserializable}

M_x1 == <<"{", "\"", "x", "\"", ":", "1", "}">>
M_x0_pretty == <<"{", "\n", " ", " ", "\"", "x", "\"", ":", " ", "0", "\n", "}">>
M_truncated == <<"{", "\"", "x", "\"", ":">>
GenericMessages == {M_x1, M_x0_pretty, M_truncated}

\* what the stream half yields: a message, an error, or its end
MessageEvent(generic_message) == [kind |-> "message", text |-> generic_message]
ErrorEvent == [kind |-> "error"]
EndEvent == [kind |-> "end"]

\* serde_json::to_string / to_string_pretty of a typed message
to_string(typed_message, pretty_printed) ==
    IF typed_message \notin Serializable THEN Err("serde_json::Error")
    ELSE IF pretty_printed
    THEN Ok(<<"{", "\n", " ", " ", "\"", "x", "\"", ":", " ",
              Digits[typed_message.x + 1], "\n", "}">>)
    ELSE Ok(<<"{", "\"", "x", "\"", ":", Digits[typed_message.x + 1], "}">>)

\* a from_str that accepts no whitespace between tokens
from_str_NoWhitespace(text) ==
    IF \E i \in DOMAIN text : text[i] \in JsonWhitespace
    THEN Err("serde_json::Error")
    ELSE from_slice(text)

\* serde_json::from_str
from_str(text) == from_slice(text)

\* screw-api, the closure handed to and_convert_typed_message_fn
JsonApiWebSocketConverter_convert_typed_message(typed_message, pretty_printed) ==
    LET generic_message_result == to_string(typed_message, pretty_printed)
    IN IF generic_message_result.tag = "Ok" THEN generic_message_result
       ELSE Err("ApiChannelError")

\* a closure that falls back to the default value when from_str fails
JsonApiWebSocketConverter_convert_generic_message_Defaults(generic_message) ==
    LET typed_message_result == from_str(generic_message)
    IN IF typed_message_result.tag = "Ok" THEN typed_message_result
       ELSE Ok([x |-> 0])

\* screw-api, the closure handed to and_convert_generic_message_fn
JsonApiWebSocketConverter_convert_generic_message(generic_message) ==
    LET typed_message_result == from_str(generic_message)
    IN IF typed_message_result.tag = "Ok" THEN typed_message_result
       ELSE Err("ApiChannelError")

\* a closure that sends an empty text when to_string fails
JsonApiConverter_convert_typed_message_Swallows(message, pretty_printed) ==
    LET serde_result == to_string(message, pretty_printed)
    IN IF serde_result.tag = "Ok" THEN serde_result
       ELSE Ok(<<>>)

\* screw-api-converters, the closure handed to ApiChannelSender::new
JsonApiConverter_convert_typed_message(message, pretty_printed) ==
    LET serde_result == to_string(message, pretty_printed)
    IN IF serde_result.tag = "Ok" THEN serde_result
       ELSE Err("ApiChannelError")

\* screw-api-converters, the closure handed to ApiChannelReceiver::new
JsonApiConverter_convert_generic_message(message) ==
    LET serde_result == from_str(message)
    IN IF serde_result.tag = "Ok" THEN serde_result
       ELSE Err("ApiChannelError")

\* the sender's conversion function, as the converter installed it
convert_typed_message_fn(s, typed_message) ==
    IF s.crate = "screw-api"
    THEN JsonApiWebSocketConverter_convert_typed_message(typed_message, s.pretty_printed)
    ELSE JsonApiConverter_convert_typed_message(typed_message, s.pretty_printed)

\* the receiver's conversion function, as the converter installed it
convert_generic_message_fn(r, generic_message) ==
    IF r.crate = "screw-api"
    THEN JsonApiWebSocketConverter_convert_generic_message(generic_message)
    ELSE JsonApiConverter_convert_generic_message(generic_message)

\* JsonApiWebSocketConverter::convert_stream and
\* JsonApiConverter::convert_streamable_request: split the stream and wrap
\* its halves
convert_stream ==
    /\ sender = None
    /\ receiver = None
    /\ sender' = Some([crate |-> converter.crate,
                       pretty_printed |-> converter.pretty_printed,
                       sends |-> <<>>])
    /\ receiver' = Some([crate |-> converter.crate,
                         ended |-> FALSE,
                         items |-> <<>>,
                         last |-> None])
    /\ UNCHANGED <<routerVars, conn, wsVars, jsonVars, sink, stream>>

\* the transport hands the stream half one more event
Deliver(event) ==
    [stream EXCEPT !.delivered = Append(@, event), !.events = Append(@, event)]

StreamExhausted == \E i \in DOMAIN stream.delivered : stream.delivered[i].kind = "end"

\* the peer's next message arrives
deliver(generic_message) ==
    /\ ~stream.loopback
    /\ ~StreamExhausted
    /\ Len(stream.delivered) < MaxDelivered
    /\ stream' = Deliver(MessageEvent(generic_message))
    /\ UNCHANGED <<routerVars, conn, wsVars, jsonVars, sink, sender, receiver>>

\* the stream half reports an error
stream_error ==
    /\ ~StreamExhausted
    /\ Len(stream.delivered) < MaxDelivered
    /\ stream' = Deliver(ErrorEvent)
    /\ UNCHANGED <<routerVars, conn, wsVars, jsonVars, sink, sender, receiver>>

\* the stream half terminates
stream_end ==
    /\ ~StreamExhausted
    /\ Len(stream.delivered) < MaxDelivered
    /\ stream' = Deliver(EndEvent)
    /\ UNCHANGED <<routerVars, conn, wsVars, jsonVars, sink, sender, receiver>>

\* the connection closes under the sink half
sink_close ==
    /\ sink.state = "open"
    /\ sink' = [sink EXCEPT !.state = "closed"]
    /\ UNCHANGED <<routerVars, conn, wsVars, jsonVars, stream, sender, receiver>>

\* a send that puts the message in front of what the sink already holds
send_Prepends(typed_message) ==
    /\ sender # None
    /\ Len(sender.value.sends) < MaxSends
    /\ LET generic_message_result == convert_typed_message_fn(sender.value, typed_message)
           result == IF generic_message_result.tag = "Err" THEN generic_message_result
                     ELSE IF sink.state # "open" THEN Err("ApiChannelError")
                     ELSE Ok(<<>>)
           forwards == /\ generic_message_result.tag = "Ok"
                       /\ sink.state = "open"
       IN /\ sender' = Some([sender.value EXCEPT !.sends =
                                Append(@, [message |-> typed_message,
                                           result |-> result])])
          /\ IF forwards
             THEN /\ sink' = [sink EXCEPT !.forwarded =
                                  <<generic_message_result.value>> \o @]
                  /\ IF stream.loopback /\ ~StreamExhausted
                     THEN stream' = Deliver(MessageEvent(generic_message_result.value))
                     ELSE UNCHANGED stream
             ELSE UNCHANGED <<sink, stream>>
    /\ UNCHANGED <<routerVars, conn, wsVars, jsonVars, receiver>>

\* ApiChannelSender::send
send(typed_message) ==
    /\ sender # None
    /\ Len(sender.value.sends) < MaxSends
    /\ LET generic_message_result == convert_typed_message_fn(sender.value, typed_message)
           result == IF generic_message_result.tag = "Err" THEN generic_message_result
                     ELSE IF sink.state # "open" THEN Err("ApiChannelError")
                     ELSE Ok(<<>>)
           forwards == /\ generic_message_result.tag = "Ok"
                       /\ sink.state = "open"
       IN /\ sender' = Some([sender.value EXCEPT !.sends =
                                Append(@, [message |-> typed_message,
                                           result |-> result])])
          /\ IF forwards
             THEN /\ sink' = [sink EXCEPT !.forwarded =
                                  Append(@, generic_message_result.value)]
                  /\ IF stream.loopback /\ ~StreamExhausted
                     THEN stream' = Deliver(MessageEvent(generic_message_result.value))
                     ELSE UNCHANGED stream
             ELSE UNCHANGED <<sink, stream>>
    /\ UNCHANGED <<routerVars, conn, wsVars, jsonVars, receiver>>

\* a pull that passes a transport error on as an Err item and stays open
pull_ErrorKeepsOpen ==
    /\ receiver # None
    /\ IF receiver.value.ended
       THEN /\ receiver' = Some([receiver.value EXCEPT !.last = None])
            /\ UNCHANGED stream
       ELSE /\ stream.events # <<>>
            /\ stream' = [stream EXCEPT !.events = Tail(@)]
            /\ LET event == Head(stream.events)
               IN IF event.kind = "message"
                  THEN LET item == convert_generic_message_fn(receiver.value, event.text)
                       IN receiver' = Some([receiver.value EXCEPT
                                               !.items = Append(@, item),
                                               !.last = Some(item)])
                  ELSE IF event.kind = "error"
                  THEN receiver' = Some([receiver.value EXCEPT
                                            !.items = Append(@, Err("ApiChannelError")),
                                            !.last = Some(Err("ApiChannelError"))])
                  ELSE receiver' = Some([receiver.value EXCEPT
                                            !.ended = TRUE,
                                            !.last = None])
    /\ UNCHANGED <<routerVars, conn, wsVars, jsonVars, sink, sender>>

\* one pull of the ApiChannelReceiver
pull ==
    /\ receiver # None
    /\ IF receiver.value.ended
       THEN /\ receiver' = Some([receiver.value EXCEPT !.last = None])
            /\ UNCHANGED stream
       ELSE /\ stream.events # <<>>
            /\ stream' = [stream EXCEPT !.events = Tail(@)]
            /\ LET event == Head(stream.events)
               IN IF event.kind = "message"
                  THEN LET item == convert_generic_message_fn(receiver.value, event.text)
                       IN receiver' = Some([receiver.value EXCEPT
                                               !.items = Append(@, item),
                                               !.last = Some(item)])
                  ELSE receiver' = Some([receiver.value EXCEPT
                                            !.ended = TRUE,
                                            !.last = None])
    /\ UNCHANGED <<routerVars, conn, wsVars, jsonVars, sink, sender>>


(***************************************************************************)
(* Specifications                                                          *)
(***************************************************************************)
Init ==
    /\ handlers = EmptyMap
    /\ fallback_handler = None
    /\ router = [tag |-> "NotBuilt"]
    /\ calls = <<>>
    /\ conn = [c \in Conns |-> Idle]
    /\ on_upgrade = [c \in Conns |-> "unregistered"]
    /\ tasks = <<>>
    /\ converter = [crate |-> "screw-api", pretty_printed |-> FALSE]
    /\ api = [pc |-> "idle"]
    /\ sink = [state |-> "open", forwarded |-> <<>>]
    /\ stream = [loopback |-> FALSE, delivered |-> <<>>, events |-> <<>>]
    /\ sender = None
    /\ receiver = None

Next ==
    \/ \E h \in Handlers : fallback_handler_call(h)
    \/ \E m \in Methods, p \in RoutePaths, h \in Handlers : route(m, p, h)
    \/ \E coll \in RoutesCollections : routes(coll)
    \/ build
    \/ \E c \in Conns, rq \in Requests : call(c, rq)
    \/ \E c \in Conns : response(c)

Spec == Init /\ [][Next]_vars

\* a router built with the upgrade middleware on /ws and a plain fallback
WsHandlers ==
    Insert(Insert(EmptyMap, <<"GET", "/ws">>, "ws"), <<"POST", "/ws">>, "ws")

WsInit ==
    /\ handlers = WsHandlers
    /\ fallback_handler = Some("h1")
    /\ router = [tag |-> "Ok", handlers |-> WsHandlers, fallback_handler |-> "h1"]
    /\ calls = <<[op |-> "routes", handlers |-> WsHandlers],
                 [op |-> "fallback_handler", handler |-> "h1"]>>
    /\ conn = [c \in Conns |-> Idle]
    /\ on_upgrade = [c \in Conns |-> "unregistered"]
    /\ tasks = <<>>
    /\ converter = [crate |-> "screw-api", pretty_printed |-> FALSE]
    /\ api = [pc |-> "idle"]
    /\ sink = [state |-> "open", forwarded |-> <<>>]
    /\ stream = [loopback |-> FALSE, delivered |-> <<>>, events |-> <<>>]
    /\ sender = None
    /\ receiver = None

WsNext ==
    \/ \E c \in WsConns, rq \in WsRequests : call(c, rq)
    \/ \E c \in WsConns : response(c)
    \/ \E c \in WsConns : respond(c)
    \/ \E c \in WsConns : respond_next(c)
    \/ \E c \in WsConns : respond_spawn(c)
    \/ \E c \in WsConns : respond_return(c)
    \/ \E c \in WsConns : upgrade_complete(c)
    \/ \E c \in WsConns : upgrade_fail(c)
    \/ \E t \in DOMAIN tasks : task_on_upgrade(t)
    \/ \E t \in DOMAIN tasks : task_from_raw_socket(t)
    \/ \E t \in DOMAIN tasks, outcome \in {"returned", "panicked"} :
          task_upgraded_fn(t, outcome)

WsSpec == WsInit /\ [][WsNext]_vars

\* task::spawn hands the future to the runtime: a spawned task that can take
\* its next step is polled
WsFairness ==
    /\ WF_vars(\E t \in DOMAIN tasks : task_on_upgrade(t))
    /\ WF_vars(\E t \in DOMAIN tasks : task_from_raw_socket(t))
    /\ WF_vars(\E t \in DOMAIN tasks, outcome \in {"returned", "panicked"} :
                  task_upgraded_fn(t, outcome))

\* the requests that ask for the websocket upgrade in version 13
UpgradeRequests ==
    {rq \in WsRequests : /\ is_upgrade_header_web_socket(rq)
                          /\ is_web_socket_version_header_13(rq)}

WsFairNext ==
    \/ \E c \in WsConns, rq \in UpgradeRequests : call(c, rq)
    \/ \E c \in WsConns : response(c)
    \/ \E c \in WsConns : respond(c)
    \/ \E c \in WsConns : respond_next(c)
    \/ \E c \in WsConns : respond_spawn(c)
    \/ \E c \in WsConns : respond_return(c)
    \/ \E c \in WsConns : upgrade_complete(c)
    \/ \E c \in WsConns : upgrade_fail(c)
    \/ \E t \in DOMAIN tasks : task_on_upgrade(t)
    \/ \E t \in DOMAIN tasks : task_from_raw_socket(t)
    \/ \E t \in DOMAIN tasks, outcome \in {"returned", "panicked"} :
          task_upgraded_fn(t, outcome)

WsFairSpec == WsInit /\ [][WsFairNext]_vars /\ WsFairness

JsonInit ==
    /\ handlers = EmptyMap
    /\ fallback_handler = None
    /\ router = [tag |-> "NotBuilt"]
    /\ calls = <<>>
    /\ conn = [c \in Conns |-> Idle]
    /\ on_upgrade = [c \in Conns |-> "unregistered"]
    /\ tasks = <<>>
    /\ converter \in [crate : {"screw-api", "screw-api-converters"},
                      pretty_printed : BOOLEAN]
    /\ api = [pc |-> "idle"]
    /\ sink = [state |-> "open", forwarded |-> <<>>]
    /\ stream = [loopback |-> FALSE, delivered |-> <<>>, events |-> <<>>]
    /\ sender = None
    /\ receiver = None

JsonNext ==
    \/ \E rq \in ApiRequests : convert_request(rq)
    \/ \E rs \in ApiResponses : handle(rs)
    \/ convert_response

JsonSpec == JsonInit /\ [][JsonNext]_vars

ChanInit ==
    /\ handlers = EmptyMap
    /\ fallback_handler = None
    /\ router = [tag |-> "NotBuilt"]
    /\ calls = <<>>
    /\ conn = [c \in Conns |-> Idle]
    /\ on_upgrade = [c \in Conns |-> "unregistered"]
    /\ tasks = <<>>
    /\ converter \in [crate : {"screw-api", "screw-api-converters"},
                      pretty_printed : BOOLEAN]
    /\ api = [pc |-> "idle"]
    /\ sink = [state |-> "open", forwarded |-> <<>>]
    /\ stream \in [loopback : BOOLEAN, delivered : {<<>>}, events : {<<>>}]
    /\ sender = None
    /\ receiver = None

ChanNext ==
    \/ convert_stream
    \/ \E generic_message \in GenericMessages : deliver(generic_message)
    \/ stream_error
    \/ stream_end
    \/ sink_close
    \/ \E typed_message \in TypedMessages : send(typed_message)
    \/ pull

ChanSpec == ChanInit /\ [][ChanNext]_vars

(***************************************************************************)
(* What the builder was told, read off the history of its calls            *)
(***************************************************************************)
\* the keys a call registers
KeysOf(c) ==
    IF c.op = "route" THEN {c.key}
    ELSE IF c.op = "routes" THEN DOMAIN c.handlers
    ELSE {}

\* the handler a call registers under key k
HandlerOf(c, k) == IF c.op = "route" THEN c.handler ELSE c.handlers[k]

RegisteredKeys == UNION {KeysOf(calls[i]) : i \in 1..Len(calls)}

\* the handler of the most recent registration of k
BoundHandler(k) ==
    LET last == CHOOSE i \in 1..Len(calls) :
                    /\ k \in KeysOf(calls[i])
                    /\ \A j \in (i+1)..Len(calls) : k \notin KeysOf(calls[j])
    IN HandlerOf(calls[last], k)

FallbackCalls == {i \in 1..Len(calls) : calls[i].op = "fallback_handler"}

KeyOfRequest(rq) == <<rq.method, rq.path>>

(***************************************************************************)
(* C1: a request whose (method, exact path) is a registered key has, once  *)
(* answered, caused exactly one handler invocation: that of the handler    *)
(* bound to its key, and not of the fallback.                              *)
(***************************************************************************)
C1_RegisteredDispatch ==
    \A c \in Conns :
        (conn[c].pc = "done" /\ KeyOfRequest(conn[c].request) \in RegisteredKeys)
        => conn[c].invoked =
             <<[handler |-> BoundHandler(KeyOfRequest(conn[c].request)),
                fallback |-> FALSE]>>

\* a registered key, registered twice with different handlers, was dispatched
C1_Witness ==
    \E c \in Conns :
        /\ conn[c].pc = "done"
        /\ KeyOfRequest(conn[c].request) \in RegisteredKeys
        /\ \E i, j \in 1..Len(calls) :
              /\ i < j
              /\ KeyOfRequest(conn[c].request) \in KeysOf(calls[i]) \cap KeysOf(calls[j])
              /\ HandlerOf(calls[i], KeyOfRequest(conn[c].request))
                   # HandlerOf(calls[j], KeyOfRequest(conn[c].request))

(***************************************************************************)
(* C2: a request whose (method, exact path) is not a registered key has,   *)
(* once answered, caused exactly one invocation, of the fallback handler,  *)
(* and none of a registered handler.                                       *)
(***************************************************************************)
C2_UnregisteredDispatch ==
    \A c \in Conns :
        (conn[c].pc = "done" /\ KeyOfRequest(conn[c].request) \notin RegisteredKeys)
        => /\ Len(conn[c].invoked) = 1
           /\ conn[c].invoked[1].fallback
           /\ \E i \in FallbackCalls :
                 /\ \A j \in FallbackCalls : j <= i
                 /\ conn[c].invoked[1].handler = calls[i].handler

\* one miss on a registered path with another method, one miss on a path that
\* extends a registered path
C2_Witness ==
    /\ \E c \in Conns :
          /\ conn[c].pc = "done"
          /\ KeyOfRequest(conn[c].request) \notin RegisteredKeys
          /\ \E m \in Methods : <<m, conn[c].request.path>> \in RegisteredKeys
    /\ \E c \in Conns :
          /\ conn[c].pc = "done"
          /\ conn[c].request.path = "/a/b"
          /\ <<conn[c].request.method, "/a">> \in RegisteredKeys
          /\ \A m \in Methods : <<m, "/a/b">> \notin RegisteredKeys

(***************************************************************************)
(* C3: build fails exactly when fallback_handler was never called, its     *)
(* only failure is FallbackHandlerMissing, a built router has a fallback   *)
(* handler, and requests are only ever dispatched by a built router.       *)
(***************************************************************************)
C3_BuildFallback ==
    /\ router.tag \in {"NotBuilt", "Ok", "Err"}
    /\ router.tag = "Err" =>
          /\ router.error = "FallbackHandlerMissing"
          /\ FallbackCalls = {}
    /\ router.tag = "Ok" =>
          /\ FallbackCalls # {}
          /\ router.fallback_handler \in Handlers
    /\ \A c \in Conns : conn[c].pc # "idle" => router.tag = "Ok"

\* build failed although routes had been registered
C3_Witness ==
    /\ router.tag = "Err"
    /\ RegisteredKeys # {}

(***************************************************************************)
(* The handshake checks as the specification words them                    *)
(***************************************************************************)
Separators == {" ", ","}

\* the bytes of `value` from i to j spell `word` in some mix of cases
Spells(value, i, j, lower, upper) ==
    /\ j - i + 1 = Len(lower)
    /\ \A k \in 1..Len(lower) : value[i + k - 1] \in {lower[k], upper[k]}

\* the bytes from i to j are a whole token of the space/comma separated list
WholeToken(value, i, j) ==
    /\ \A k \in i..j : value[k] \notin Separators
    /\ i = 1 \/ value[i - 1] \in Separators
    /\ j = Len(value) \/ value[j + 1] \in Separators

HeaderOf(rq, name) ==
    LET i == CHOOSE k \in 1..Len(rq.headers) : name \in DOMAIN rq.headers[k]
    IN rq.headers[i][name]

Check1(rq) == rq.method = "GET"
Check2(rq) == rq.version \in {"HTTP/1.1", "HTTP/2.0", "HTTP/3.0"}
Check3(rq) ==
    /\ HeaderOf(rq, "Connection").tag = "Some"
    /\ LET v == HeaderOf(rq, "Connection").value IN
       \E i, j \in 1..Len(v) :
           /\ WholeToken(v, i, j)
           /\ Spells(v, i, j, <<"u", "p", "g", "r", "a", "d", "e">>,
                              <<"U", "P", "G", "R", "A", "D", "E">>)
Check4(rq) ==
    /\ HeaderOf(rq, "Upgrade").tag = "Some"
    /\ LET v == HeaderOf(rq, "Upgrade").value IN
       Spells(v, 1, Len(v), <<"w", "e", "b", "s", "o", "c", "k", "e", "t">>,
                            <<"W", "E", "B", "S", "O", "C", "K", "E", "T">>)
Check5(rq) == HeaderOf(rq, "Sec-WebSocket-Version") = Some(<<"1", "3">>)
Check6(rq) == HeaderOf(rq, "Sec-WebSocket-Key").tag = "Some"

Checks2to6(rq) == Check2(rq) /\ Check3(rq) /\ Check4(rq) /\ Check5(rq) /\ Check6(rq)

\* every byte of the Connection header value is visible ASCII
ConnectionIsText(rq) ==
    /\ HeaderOf(rq, "Connection").tag = "Some"
    /\ \A i \in 1..Len(HeaderOf(rq, "Connection").value) :
           HeaderOf(rq, "Connection").value[i] # ObsText

\* the request of connection c was routed to the upgrade middleware
AtUpgradeStage(c) ==
    /\ conn[c].pc \notin {"idle", "call"}
    /\ conn[c].invoked[1].handler \in WebSocketHandlers

\* the middleware has validated the request of connection c
Validated(c) == AtUpgradeStage(c) /\ conn[c].pc # "respond"

TasksOf(c) == {t \in DOMAIN tasks : tasks[t].conn = c}

(***************************************************************************)
(* C4: a request handed to the router whose processing has ended was       *)
(* answered with exactly one response, and no request is ever answered     *)
(* more than once.                                                         *)
(***************************************************************************)
C4_ExactlyOneResponse ==
    \A c \in Conns :
        /\ conn[c].pc # "idle" => Len(conn[c].responses) <= 1
        /\ conn[c].pc \in {"done", "panicked"} => Len(conn[c].responses) = 1

(***************************************************************************)
(* C5: a GET request at the upgrade stage that fails one of the checks 2-6 *)
(* is answered, and only answered, with HTTP 400 and an empty body.        *)
(***************************************************************************)
C5_FailedCheckIs400 ==
    \A c \in Conns :
        (Validated(c) /\ Check1(conn[c].request) /\ ~Checks2to6(conn[c].request))
        => /\ conn[c].pc = "done"
           /\ Len(conn[c].responses) = 1
           /\ conn[c].responses[1].status = 400
           /\ conn[c].responses[1].body = <<>>

\* a GET handshake whose only fault is a Connection token that merely starts
\* with Upgrade was answered
C5_Witness ==
    \E c \in Conns :
        /\ Validated(c)
        /\ Check1(conn[c].request)
        /\ HeaderOf(conn[c].request, "Connection") = Some(S_upgrades)
        /\ Check2(conn[c].request) /\ Check4(conn[c].request)
        /\ Check5(conn[c].request) /\ Check6(conn[c].request)
        /\ conn[c].pc = "done"

(***************************************************************************)
(* C6: a request passing all six checks is answered 101 with an empty      *)
(* body and the headers Connection: Upgrade, Upgrade: websocket and        *)
(* Sec-WebSocket-Accept derived from its Sec-WebSocket-Key; a request      *)
(* failing a check is never answered 101.                                  *)
(***************************************************************************)
Is101For(resp, rq) ==
    /\ resp.status = 101
    /\ resp.body = <<>>
    /\ resp.headers =
         {<<"Connection", <<"U", "p", "g", "r", "a", "d", "e">>>>,
          <<"Upgrade", <<"w", "e", "b", "s", "o", "c", "k", "e", "t">>>>,
          <<"Sec-WebSocket-Accept",
            derive_accept_key(HeaderOf(rq, "Sec-WebSocket-Key").value)>>}
    /\ HeaderOf(rq, "Sec-WebSocket-Key").value = SampleKey
         => <<"Sec-WebSocket-Accept",
              <<"s", "3", "p", "P", "L", "M", "B", "i", "T", "x", "a", "Q", "9", "k", "Y", "G", "z", "z", "h", "Z", "R", "b", "K", "+", "x", "O", "o", "=">>>> \in resp.headers

C6_ValidHandshakeIs101 ==
    \A c \in Conns :
        AtUpgradeStage(c) =>
            /\ (conn[c].pc = "done" /\ Check1(conn[c].request)
                                    /\ Checks2to6(conn[c].request))
               => /\ Len(conn[c].responses) = 1
                  /\ Is101For(conn[c].responses[1], conn[c].request)
            /\ \A i \in 1..Len(conn[c].responses) :
                  conn[c].responses[i].status = 101
                  => Check1(conn[c].request) /\ Checks2to6(conn[c].request)

\* C6 as amended: the same, for requests whose Connection header value is made of
\* visible ASCII bytes only; a Connection value holding any other byte is no
\* handshake, whatever its tokens
C6_TextHandshakeIs101 ==
    \A c \in Conns :
        AtUpgradeStage(c) =>
            /\ (conn[c].pc = "done" /\ Check1(conn[c].request)
                                    /\ Checks2to6(conn[c].request)
                                    /\ ConnectionIsText(conn[c].request))
               => /\ Len(conn[c].responses) = 1
                  /\ Is101For(conn[c].responses[1], conn[c].request)
            /\ \A i \in 1..Len(conn[c].responses) :
                  conn[c].responses[i].status = 101
                  => /\ Check1(conn[c].request) /\ Checks2to6(conn[c].request)
                     /\ ConnectionIsText(conn[c].request)

\* a handshake carrying the sample key, with the Upgrade token second in a
\* lower-case Connection list, was answered
C6_Witness ==
    \E c \in Conns :
        /\ AtUpgradeStage(c)
        /\ conn[c].pc = "done"
        /\ Check1(conn[c].request) /\ Checks2to6(conn[c].request)
        /\ HeaderOf(conn[c].request, "Connection") = Some(S_keep_alive_upgrade)
        /\ HeaderOf(conn[c].request, "Sec-WebSocket-Key") = Some(SampleKey)
        /\ conn[c].responses[1].status = 101

(***************************************************************************)
(* C7: a request at the upgrade stage with a method other than GET aborts  *)
(* the task that carries it: it gets no response, the wrapped handler is   *)
(* not invoked and no background task is scheduled.                        *)
(***************************************************************************)
C7_WrongMethodAborts ==
    \A c \in Conns :
        (Validated(c) /\ ~Check1(conn[c].request))
        => /\ conn[c].pc = "panicked"
           /\ conn[c].responses = <<>>
           /\ conn[c].next_calls = 0
           /\ TasksOf(c) = {}
           /\ on_upgrade[c] = "unregistered"

\* a POST that passes every other check was validated
C7_Witness ==
    \E c \in Conns :
        /\ Validated(c)
        /\ conn[c].request.method = "POST"
        /\ Checks2to6(conn[c].request)
        /\ ConnectionIsText(conn[c].request)

(***************************************************************************)
(* What the JSON stage is expected to make of a request                    *)
(***************************************************************************)
ContentTypeOf(rq) == rq.http.parts.headers["content-type"]
DataResult == api.api_request.content.origin.data_result

IsJsonContentType(rq) ==
    ContentTypeOf(rq) = Some(<<"a", "p", "p", "l", "i", "c", "a", "t", "i", "o", "n", "/", "j", "s", "o", "n">>)

\* the bodies that are JSON texts of the payload struct, and their values
Decoded(body) ==
    IF body = <<"{", "\"", "x", "\"", ":", "1", "}">> THEN Some([x |-> 1])
    ELSE IF body = <<"{", " ", "\"", "x", "\"", " ", ":", " ", "0", " ", "}">> THEN Some([x |-> 0])
    ELSE IF body = <<"{", "\n", " ", " ", "\"", "x", "\"", ":", " ", "1", "\n", "}">> THEN Some([x |-> 1])
    ELSE None

MissedErrors == {"ApiRequestContentTypeError::Missed",
                 "JsonApiRequestConvertError::ContentTypeMissed"}
IncorrectErrors == {"ApiRequestContentTypeError::Incorrect",
                    "JsonApiRequestConvertError::ContentTypeIncorrect"}
DeserializeErrors == {"serde_json::Error", "JsonApiRequestConvertError::SerdeJson"}
ToStrErrors == {"ToStrError", "JsonApiRequestConvertError::ToStr"}

IsText(value) == \A i \in 1..Len(value) : value[i] # ObsText

\* the classification of everything but the "any other value" case
C8_Common ==
    /\ (IsJsonContentType(api.request) /\ api.request.http.body.tag = "Ok") =>
          IF Decoded(api.request.http.body.value).tag = "Some"
          THEN DataResult = Ok(Decoded(api.request.http.body.value).value)
          ELSE DataResult.tag = "Err" /\ DataResult.error \in DeserializeErrors
    /\ ContentTypeOf(api.request) \in {None, Some(<<>>)} =>
          DataResult.tag = "Err" /\ DataResult.error \in MissedErrors

OtherContentType(rq) ==
    /\ ~IsJsonContentType(rq)
    /\ ContentTypeOf(rq) \notin {None, Some(<<>>)}

(***************************************************************************)
(* C8: decode lets the body be decoded exactly under Content-Type          *)
(* application/json, answers a missing or empty header with                *)
(* ContentTypeMissed, any other value with ContentTypeIncorrect, and a     *)
(* malformed body under application/json with a deserialization error.     *)
(***************************************************************************)
C8_ContentTypeClassified ==
    api.pc # "idle" =>
        /\ C8_Common
        /\ OtherContentType(api.request) =>
              DataResult.tag = "Err" /\ DataResult.error \in IncorrectErrors

\* C8 as amended: any other value made of visible ASCII bytes gives
\* ContentTypeIncorrect, and a value holding another byte gives the header's
\* to_str error
C8_TextContentTypeClassified ==
    api.pc # "idle" =>
        /\ C8_Common
        /\ OtherContentType(api.request) =>
              /\ DataResult.tag = "Err"
              /\ IF IsText(ContentTypeOf(api.request).value)
                 THEN DataResult.error \in IncorrectErrors
                 ELSE DataResult.error \in ToStrErrors

\* application/json with parameters was classified, by the screw-api converter
C8_Witness ==
    /\ api.pc = "converted"
    /\ converter.crate = "screw-api"
    /\ ContentTypeOf(api.request) =
         Some(<<"a", "p", "p", "l", "i", "c", "a", "t", "i", "o", "n", "/", "j", "s", "o", "n", ";", " ", "c", "h", "a", "r", "s", "e", "t", "=", "u", "t", "f", "-", "8">>)
    /\ DataResult.tag = "Err"

JsonTextOf(data, pretty_printed) ==
    IF pretty_printed
    THEN IF data.x = 0 THEN <<"{", "\n", " ", " ", "\"", "x", "\"", ":", " ", "0", "\n", "}">>
         ELSE <<"{", "\n", " ", " ", "\"", "x", "\"", ":", " ", "1", "\n", "}">>
    ELSE IF data.x = 0 THEN <<"{", "\"", "x", "\"", ":", "0", "}">>
         ELSE <<"{", "\"", "x", "\"", ":", "1", "}">>

C10_EncodeOr500 ==
    api.pc = "responded" =>
        IF api.api_response.content.serializable
        THEN /\ api.http_response.status = api.api_response.content.status_code
             /\ api.http_response.body =
                  JsonTextOf(api.api_response.content.data, converter.pretty_printed)
        ELSE /\ api.http_response.status = 500
             /\ api.http_response.body = <<>>

\* a Failure content that cannot be serialized was converted
C10_Witness ==
    /\ api.pc = "responded"
    /\ ~api.api_response.content.serializable
    /\ api.api_response.content.variant = "Failure"
    /\ api.api_response.content.status_code = 404

(***************************************************************************)
(* C11: every response produced by the JSON response converter carries the *)
(* header Content-Type: application/json, whatever the content and the     *)
(* encode outcome.                                                         *)
(***************************************************************************)
JsonContentTypeHeader ==
    <<"content-type", <<"a", "p", "p", "l", "i", "c", "a", "t", "i", "o", "n", "/", "j", "s", "o", "n">>>>

C11_AlwaysJsonContentType ==
    api.pc = "responded" => JsonContentTypeHeader \in api.http_response.headers

\* C11 as amended: the response of a successful encode carries the header
\* Content-Type: application/json; the 500 response that stands in for a failed
\* encode carries no header at all
C11_JsonContentTypeWhenEncoded ==
    api.pc = "responded" =>
        IF api.api_response.content.serializable
        THEN JsonContentTypeHeader \in api.http_response.headers
        ELSE api.http_response.headers = {}

\* a Success content was encoded pretty-printed by the screw-api converter
C11_Witness ==
    /\ api.pc = "responded"
    /\ converter = [crate |-> "screw-api", pretty_printed |-> TRUE]
    /\ api.api_response.content.serializable
    /\ api.api_response.content.variant = "Success"

(***************************************************************************)
(* The typed channel, seen from outside: what the transport delivered,     *)
(* what the receiver has taken of it, and what each text stands for.       *)
(***************************************************************************)
\* the events the receiver has taken from the stream half so far
Consumed == SubSeq(stream.delivered, 1, Len(stream.delivered) - Len(stream.events))

\* the position of the first error or end among the consumed events, or one
\* past the last consumed event when there is none
FirstTerminal ==
    LET terminals == {i \in DOMAIN Consumed : Consumed[i].kind # "message"}
    IN IF terminals = {} THEN Len(Consumed) + 1
       ELSE CHOOSE i \in terminals : \A j \in terminals : i <= j

TerminalConsumed == FirstTerminal <= Len(Consumed)

\* the typed value a text is the JSON of, if any
ValueOf(text) ==
    LET values == {v \in {[x |-> 0], [x |-> 1]} :
                      \E pretty \in BOOLEAN : JsonTextOf(v, pretty) = text}
    IN IF values = {} THEN None ELSE Some(CHOOSE v \in values : TRUE)

\* the sends that succeeded, in the order they were made
IsOkSend(entry) == entry.result.tag = "Ok"
SuccessfulSends == SelectSeq(sender.value.sends, IsOkSend)

\* C12: a message whose deserialization fails yields exactly one Err item and
\* leaves the sequence open: as long as the transport has neither ended nor
\* reported an error, every message taken from it has produced one item, Err
\* for a malformed text and Ok(value) for a well-formed one, also after an
\* Err, and the last pull yielded the last of these items
C12_MalformedYieldsOneErr ==
    (receiver # None /\ ~TerminalConsumed) =>
        LET items == receiver.value.items
        IN /\ Len(items) = Len(Consumed)
           /\ \A k \in DOMAIN items :
                 IF ValueOf(Consumed[k].text) = None
                 THEN items[k].tag = "Err"
                 ELSE items[k] = Ok(ValueOf(Consumed[k].text).value)
           /\ IF items = <<>> THEN receiver.value.last = None
              ELSE receiver.value.last = Some(items[Len(items)])

\* a malformed message, a well-formed one and one more were pulled
C12_Witness ==
    /\ receiver # None
    /\ ~TerminalConsumed
    /\ Len(receiver.value.items) = 3
    /\ receiver.value.items[1].tag = "Err"
    /\ receiver.value.items[2] = Ok([x |-> 1])
    /\ receiver.value.items[3] = Ok([x |-> 0])

\* C13: once the receiver has taken the end of the stream or an error from
\* it, no later pull yields an item: the items pulled so far stay as they are
\* and every later pull yields None
C13_EndedPermanently ==
    [][(receiver # None /\ TerminalConsumed) =>
          /\ receiver'.value.items = receiver.value.items
          /\ receiver' # receiver => receiver'.value.last = None]_vars

\* the sequence has ended on an error although a message delivered after the
\* error is waiting in the stream
C13_Witness ==
    /\ receiver # None
    /\ TerminalConsumed
    /\ Consumed[FirstTerminal].kind = "error"
    /\ receiver.value.items # <<>>
    /\ receiver.value.last = None
    /\ stream.events # <<>>
    /\ Head(stream.events).kind = "message"

\* C14: channel order is transport order: the k-th item pulled is the
\* deserialization of the k-th delivered message, the stream still holds
\* exactly what was delivered and not yet pulled, and the k-th message
\* forwarded to the sink is the serialization of the k-th successful send
C14_OrderPreserved ==
    /\ stream.events = SubSeq(stream.delivered, Len(Consumed) + 1, Len(stream.delivered))
    /\ receiver # None =>
          LET items == receiver.value.items
          IN /\ Len(items) = FirstTerminal - 1
             /\ \A k \in DOMAIN items :
                   /\ Consumed[k].kind = "message"
                   /\ IF ValueOf(Consumed[k].text) = None
                      THEN items[k].tag = "Err"
                      ELSE items[k] = Ok(ValueOf(Consumed[k].text).value)
    /\ receiver = None => Consumed = <<>>
    /\ IF sender = None THEN sink.forwarded = <<>>
       ELSE /\ Len(sink.forwarded) = Len(SuccessfulSends)
            /\ \A k \in DOMAIN sink.forwarded :
                  sink.forwarded[k] =
                      JsonTextOf(SuccessfulSends[k].message, sender.value.pretty_printed)

\* two different values were sent and three different messages pulled
C14_Witness ==
    /\ sender # None
    /\ receiver # None
    /\ Len(sink.forwarded) = 2
    /\ sink.forwarded[1] # sink.forwarded[2]
    /\ Len(receiver.value.items) = 3
    /\ receiver.value.items[1] # receiver.value.items[2]
    /\ receiver.value.items[2] # receiver.value.items[3]
    /\ receiver.value.items[1] # receiver.value.items[3]

\* C15: round trip: over a loopback transport the k-th item pulled from the
\* receiver is Ok of the value of the k-th successful send
C15_RoundTrip ==
    (stream.loopback /\ sender # None /\ receiver # None) =>
        /\ Len(receiver.value.items) <= Len(SuccessfulSends)
        /\ \A k \in DOMAIN receiver.value.items :
              receiver.value.items[k] = Ok(SuccessfulSends[k].message)

\* two different values went round through a pretty-printing sender
C15_Witness ==
    /\ stream.loopback
    /\ sender # None
    /\ receiver # None
    /\ sender.value.pretty_printed
    /\ receiver.value.items = <<Ok([x |-> 1]), Ok([x |-> 0])>>

\* C16: send serializes first and forwards second: a send whose value does
\* not serialize returns an error and forwards nothing; a send the sink
\* rejects returns an error; any other send forwards exactly one message,
\* the serialization of its value, and succeeds
C16_SendSerializesThenForwards ==
    [][(sender # None /\ sender' # sender) =>
          LET entry == sender'.value.sends[Len(sender'.value.sends)]
          IN /\ sender'.value.sends = Append(sender.value.sends, entry)
             /\ IF entry.message \notin {[x |-> 0], [x |-> 1]}
                THEN entry.result.tag = "Err" /\ sink' = sink
                ELSE IF sink.state # "open"
                THEN entry.result.tag = "Err" /\ sink' = sink
                ELSE /\ entry.result.tag = "Ok"
                     /\ sink'.state = sink.state
                     /\ sink'.forwarded =
                            Append(sink.forwarded,
                                   JsonTextOf(entry.message, sender.value.pretty_printed))]_vars

\* a send succeeded, then the sink closed and a second send was rejected
C16_Witness ==
    /\ sender # None
    /\ Len(sender.value.sends) = 2
    /\ sender.value.sends[1].result.tag = "Ok"
    /\ sender.value.sends[2].message = [x |-> 1]
    /\ sender.value.sends[2].result.tag = "Err"
    /\ sink.state = "closed"
    /\ Len(sink.forwarded) = 1


(***************************************************************************)
(* C17: failures of the background task are not observable to the HTTP     *)
(* exchange: no step of the task and no failure of the upgrade wait        *)
(* changes the exchange that spawned it, and whatever the task has come    *)
(* to, an accepted handshake that was answered was answered with the one   *)
(* 101 response its request determines, and the task carrying it was not   *)
(* aborted.                                                                *)
(***************************************************************************)
Accepted(c) ==
    /\ Validated(c)
    /\ Check1(conn[c].request)
    /\ Checks2to6(conn[c].request)
    /\ ConnectionIsText(conn[c].request)

C17_BackgroundUnobservable ==
    [][\A c \in Conns :
          /\ ((\E t \in TasksOf(c) : tasks'[t] # tasks[t])
                 \/ (on_upgrade[c] = "pending" /\ on_upgrade'[c] = "err"))
             => conn'[c] = conn[c]
          /\ Accepted(c)' =>
                /\ conn'[c].pc # "panicked"
                /\ conn'[c].pc = "done" =>
                      /\ Len(conn'[c].responses) = 1
                      /\ Is101For(conn'[c].responses[1], conn'[c].request)]_vars

\* the upgrade wait failed before the 101 response was returned, and the
\* response was returned all the same
C17_Witness ==
    \E c \in Conns :
        /\ Accepted(c)
        /\ conn[c].pc = "done"
        /\ on_upgrade[c] = "err"
        /\ \E t \in TasksOf(c) : tasks[t].pc = "failed"

(***************************************************************************)
(* C18: once built, the router is never changed: under any interleaving of *)
(* calls on the connections sharing it, the route table and the fallback   *)
(* handler stay the ones build() put there.                                *)
(***************************************************************************)
C18_RouterFrozen ==
    [][router.tag = "Ok" =>
          /\ router' = router
          /\ router.handlers = handlers
          /\ Some(router.fallback_handler) = fallback_handler]_vars

\* one connection was answered by a route while the other is in dispatch
C18_Witness ==
    /\ router.tag = "Ok"
    /\ conn["c1"].pc = "done"
    /\ conn["c1"].invoked # <<>>
    /\ ~conn["c1"].invoked[1].fallback
    /\ conn["c2"].pc = "call"

(***************************************************************************)
(* C19: the handshake checks are made in the order method, HTTP version,   *)
(* Connection, Upgrade, Sec-WebSocket-Version, Sec-WebSocket-Key, and the  *)
(* outcome is that of the first check that fails: its error is the result  *)
(* of the validation, a method failure aborts and any other failure is     *)
(* answered 400, however many later checks fail too.                       *)
(***************************************************************************)
CheckPasses(rq, n) ==
    CASE n = 1 -> Check1(rq)
      [] n = 2 -> Check2(rq)
      [] n = 3 -> Check3(rq) /\ ConnectionIsText(rq)
      [] n = 4 -> Check4(rq)
      [] n = 5 -> Check5(rq)
      [] n = 6 -> Check6(rq)

\* the lowest-numbered failing check, 0 when every check passes
FirstFailing(rq) ==
    LET failing == {n \in 1..6 : ~CheckPasses(rq, n)}
    IN IF failing = {} THEN 0
       ELSE CHOOSE n \in failing : \A m \in failing : n <= m

ErrorOfCheck ==
    <<"WrongHttpMethod", "WrongHttpVersion", "MissingConnectionUpgradeHeader",
      "MissingUpgradeWebSocketHeader", "MissingSecWebSocketVersionHeader",
      "MissingSecWebSocketKey">>

C19_FirstFailingCheckDecides ==
    \A c \in Conns :
        Validated(c) =>
            LET n == FirstFailing(conn[c].request)
                result == try_upgradable(conn[c].request)
            IN /\ n = 0 => result.tag = "Ok" /\ conn[c].pc \notin {"panicked"}
               /\ n # 0 => result = [tag |-> "Err", error |-> ErrorOfCheck[n]]
               /\ n = 1 => conn[c].pc = "panicked" /\ conn[c].responses = <<>>
               /\ n > 1 => /\ conn[c].pc = "done"
                           /\ Len(conn[c].responses) = 1
                           /\ conn[c].responses[1].status = 400

\* a POST over HTTP/1.0 without any of the four headers was validated
C19_Witness ==
    \E c \in Conns :
        /\ Validated(c)
        /\ \A n \in 1..6 : ~CheckPasses(conn[c].request, n)
        /\ \A i \in 1..Len(conn[c].request.headers) :
              \A name \in DOMAIN conn[c].request.headers[i] :
                  conn[c].request.headers[i][name] = None
        /\ conn[c].pc = "panicked"

(***************************************************************************)
(* C20: event order of an accepted handshake: the wrapped handler is       *)
(* invoked once and has returned before the background task is scheduled   *)
(* and before the 101 response is returned; the upgraded callback is not   *)
(* invoked before the 101 response was produced and the upgrade-completion *)
(* notification has fired.                                                 *)
(***************************************************************************)
Has101(c) == \E i \in 1..Len(conn[c].responses) : conn[c].responses[i].status = 101

C20_EventOrder ==
    \A c \in Conns :
        AtUpgradeStage(c) =>
            /\ conn[c].next_calls <= 1
            /\ TasksOf(c) # {} => conn[c].next_calls = 1
            /\ Has101(c) => conn[c].next_calls = 1 /\ TasksOf(c) # {}
            /\ (Accepted(c) /\ conn[c].pc = "done") => conn[c].next_calls = 1 /\ Has101(c)
            /\ \A t \in TasksOf(c) :
                  tasks[t].upgraded_fn_calls > 0 => Has101(c) /\ on_upgrade[c] = "ok"

\* the callback of an accepted handshake has run
C20_Witness ==
    \E c \in Conns :
        /\ Accepted(c)
        /\ conn[c].pc = "done"
        /\ conn[c].next_calls = 1
        /\ \E t \in TasksOf(c) : tasks[t].upgraded_fn_calls = 1 /\ tasks[t].pc = "returned"


(***************************************************************************)
(* C21: the background task is detached: whatever has become of the HTTP   *)
(* task, a background task whose awaited event has happened can take its   *)
(* next step, and whatever the background task is doing, the HTTP task can *)
(* return its 101 response; under fair scheduling, once the upgrade        *)
(* notification has fired successfully the callback is eventually invoked  *)
(* with the framed stream.                                                 *)
(***************************************************************************)
\* the callback of connection c's handshake was invoked with the stream
\* framed from c's raw connection
CallbackInvoked(c) ==
    \E t \in TasksOf(c) :
        /\ tasks[t].upgraded_fn_calls >= 1
        /\ tasks[t].stream = Some([raw |-> c, role |-> "Server", config |-> None])

Detached ==
    /\ \A c \in Conns :
          (AtUpgradeStage(c) /\ conn[c].pc = "switching") => ENABLED respond_return(c)
    /\ \A t \in DOMAIN tasks :
          /\ (tasks[t].pc = "on_upgrade" /\ on_upgrade[tasks[t].conn] # "pending")
                => ENABLED task_on_upgrade(t)
          /\ tasks[t].pc = "from_raw_socket" => ENABLED task_from_raw_socket(t)
          /\ tasks[t].pc = "upgraded_fn" => ENABLED task_upgraded_fn(t, "returned")

C21_DetachedAndLive ==
    /\ []Detached
    /\ \A c \in Conns : (on_upgrade[c] = "ok") ~> CallbackInvoked(c)

\* the HTTP task is done and the callback has run on the framed stream
C21_Witness ==
    \E c \in Conns :
        /\ conn[c].pc = "done"
        /\ on_upgrade[c] = "ok"
        /\ CallbackInvoked(c)


(***************************************************************************)
(* C22: an accepted handshake schedules exactly one background task, whose *)
(* steps run in the order upgrade notification, server-role framing,       *)
(* callback: the callback is invoked at most once, only with the stream    *)
(* framed from the raw connection of its own handshake, and never when the *)
(* upgrade notification failed.                                            *)
(***************************************************************************)
FramedFor(c) == Some([raw |-> c, role |-> "Server", config |-> None])

C22_OneOrderedTask ==
    \A c \in Conns :
        AtUpgradeStage(c) =>
            /\ Cardinality(TasksOf(c)) <= 1
            /\ (Accepted(c) /\ conn[c].pc \in {"switching", "done"})
                  => Cardinality(TasksOf(c)) = 1
            /\ \A t \in TasksOf(c) :
                  /\ tasks[t].upgraded_fn_calls <= 1
                  /\ tasks[t].stream # None =>
                        /\ on_upgrade[c] = "ok"
                        /\ tasks[t].stream = FramedFor(c)
                  /\ tasks[t].upgraded_fn_calls = 1 => tasks[t].stream = FramedFor(c)
                  /\ on_upgrade[c] = "err" =>
                        /\ tasks[t].stream = None
                        /\ tasks[t].upgraded_fn_calls = 0
                        /\ tasks[t].pc \in {"on_upgrade", "failed"}
                  /\ tasks[t].pc \in {"on_upgrade", "from_raw_socket", "failed"} =>
                        tasks[t].stream = None /\ tasks[t].upgraded_fn_calls = 0
                  /\ tasks[t].pc = "upgraded_fn" => tasks[t].upgraded_fn_calls = 0
                  /\ tasks[t].pc \in {"returned", "panicked"} =>
                        tasks[t].upgraded_fn_calls = 1

\* the one task of an accepted handshake has framed the connection and its
\* callback is about to run
C22_Witness ==
    \E c \in Conns :
        /\ Accepted(c)
        /\ Cardinality(TasksOf(c)) = 1
        /\ \E t \in TasksOf(c) :
              /\ tasks[t].pc = "upgraded_fn"
              /\ tasks[t].stream = FramedFor(c)

(***************************************************************************)
(* C23: a rejected handshake is terminal: for a request that fails         *)
(* validation the wrapped handler is not invoked, no upgrade notification  *)
(* is registered, no background task is scheduled, and so nothing of the   *)
(* upgraded connection ever exists for it.                                 *)
(***************************************************************************)
C23_RejectedIsTerminal ==
    \A c \in Conns :
        (Validated(c) /\ FirstFailing(conn[c].request) # 0) =>
            /\ conn[c].pc \in {"done", "panicked"}
            /\ conn[c].next_calls = 0
            /\ conn[c].upgradable = None
            /\ on_upgrade[c] = "unregistered"
            /\ TasksOf(c) = {}
            /\ ~Has101(c)

\* a GET handshake that lacks nothing but its key was answered 400
C23_Witness ==
    \E c \in Conns :
        /\ Validated(c)
        /\ FirstFailing(conn[c].request) = 6
        /\ conn[c].pc = "done"
        /\ conn[c].responses[1].status = 400

(***************************************************************************)
(* C24: builder registrations are last-wins: the built router maps every   *)
(* key to the handler of the most recent registration of that key, holds   *)
(* the most recently supplied fallback, and has no key that was never      *)
(* registered.                                                             *)
(***************************************************************************)
C24_LastWins ==
    router.tag = "Ok" =>
        /\ DOMAIN router.handlers = RegisteredKeys
        /\ \A k \in RegisteredKeys : router.handlers[k] = BoundHandler(k)
        /\ \E i \in FallbackCalls :
              /\ \A j \in FallbackCalls : j <= i
              /\ router.fallback_handler = calls[i].handler

\* a router was built after the fallback was supplied twice, with different
\* handlers, around a registration
C24_Witness ==
    /\ router.tag = "Ok"
    /\ RegisteredKeys # {}
    /\ \E i, j \in FallbackCalls :
          /\ i + 1 < j
          /\ calls[i].handler # calls[j].handler
          /\ router.fallback_handler = calls[j].handler


=============================================================================
